---- MODULE Spec2Model ----
(***************************************************************************)
(* Session lifecycle and streaming-response coordinator of the chat        *)
(* backend: SessionManager (services/chat/SessionManager.js), ChatService  *)
(* (services/chat/index.js) and the per-connection adapter                 *)
(* (services/chatService.js).                                              *)
(*                                                                         *)
(* Time is counted in units of 15 minutes (the sweep interval); the idle   *)
(* timeout of 30 minutes is two units.  Every handler runs atomically up   *)
(* to its next await, as on the JavaScript event loop.                     *)
(***************************************************************************)
EXTENDS Integers, Sequences, FiniteSets, TLC

\* ------------------------------------------------------------------ bounds
MaxSessions == 2      \* createSession calls over a run
MaxTime == 3          \* clock horizon, in units of 15 minutes
MaxTurns == 2         \* send_prompt events over a run
MainTurns == 1        \* send_prompt events over a run of Spec
MaxThreads == 2       \* threads the backend creates over a run
MaxDeltas == 1        \* textDelta events of one reply stream
MaxRetries == 2       \* threads.del calls of one session that fail, in SpecLive

\* -------------------------------------------------------- program constants
SESSION_TIMEOUT == 2  \* 30 * 60 * 1000 ms
SWEEP_INTERVAL == 1   \* 15 * 60 * 1000 ms

Conns == {"c1", "c2"}             \* client connections (sockets)
MainConns == {"c1"}
Ids == 1 .. MaxSessions           \* session ids in order of creation (uuid)
Handles == 1 .. (2 * MaxSessions + MaxTurns + 2)
UnknownId == MaxSessions + 1      \* an id no createSession ever returns

VARIABLES
  now,          \* Date.now()
  nextId,       \* number of session ids generated so far
  sess,         \* the session objects, by id (an object outlives its record)
  present,      \* per ChatService: the keys of sessionManager.sessions
  timers,       \* the runtime's live setTimeout timers
  connState,    \* per connection: "new" | "open" | "closed"
  sessionId,    \* per connection: the closure variable sessionId (0: null)
  reply,        \* per connection: the last session_created / session_resumed
                \* sent, with the time it was sent at
  assistant,    \* per ChatService: assistantManager.assistant is cached
  sweptAt,      \* per ChatService: when its interval last fired
  sweepQ,       \* per ChatService: ids the running sweep has still to visit
  cleanups,     \* cleanupSession invocations awaiting threads.del
  threads,      \* the threads that exist at the conversation backend
  nextThread,   \* number of threads the backend has created
  turns,        \* the send_prompt invocations, by order of arrival
  delCalls,     \* per session: calls of threads.del made
  clearChats,   \* per session: clear_chat broadcasts made
  calls         \* the last two SessionManager calls made through its API

vars == <<now, nextId, sess, present, timers, connState, sessionId, reply,
          assistant, sweptAt, sweepQ, cleanups, threads, nextThread, turns,
          delCalls, clearChats, calls>>

\* ------------------------------------------------------- SessionManager
NoSession == [threadId |-> 0, lastActive |-> 0, timeoutId |-> 0, status |-> "none"]

\* The part of the state the SessionManager and cleanupSession work on.
Reg == [sess |-> sess, present |-> present, timers |-> timers,
        cleanups |-> cleanups, delCalls |-> delCalls]

GetSession(R, c, id) == id \in R.present[c]

HasSession(R, c, id) == id \in R.present[c] /\ R.sess[id].status = "active"

CreateSession(R, c, id, t) ==
  [R EXCEPT !.sess[id] = [threadId |-> 0, lastActive |-> t, timeoutId |-> 0,
                          status |-> "active"],
            !.present[c] = @ \cup {id}]

ClearTimeout(R, h) == [R EXCEPT !.timers = {x \in @ : x.h # h}]

\* setTimeout returns a handle distinct from every handle still in use.
HandleFree(R, id, h) ==
  /\ \A x \in R.timers : x.h # h
  /\ \A s \in Ids \ {id} : R.sess[s].timeoutId # h

SetTimeout(R, id) ==
  CHOOSE h \in Handles : HandleFree(R, id, h)
                         /\ \A k \in 1 .. (h - 1) : ~HandleFree(R, id, k)

\* scheduleCleanup without the clearTimeout of the timer it replaces.
ScheduleCleanupNoClear(R, c, id, t) ==
  IF ~GetSession(R, c, id) \/ R.sess[id].status # "active" THEN R
  ELSE LET h == SetTimeout(R, id)
       IN [R EXCEPT !.sess[id].timeoutId = h,
                    !.timers = @ \cup {[h |-> h, c |-> c, id |-> id,
                                        due |-> t + SESSION_TIMEOUT]}]

\* scheduleCleanup that re-activates whatever record it finds, as if it were
\* a keep-alive.
ScheduleCleanupRevive(R, c, id, t) ==
  IF ~GetSession(R, c, id) THEN R
  ELSE LET R1 == IF R.sess[id].timeoutId # 0
                 THEN ClearTimeout(R, R.sess[id].timeoutId) ELSE R
           h == SetTimeout(R1, id)
       IN [R1 EXCEPT !.sess[id].timeoutId = h,
                     !.sess[id].status = "active",
                     !.timers = @ \cup {[h |-> h, c |-> c, id |-> id,
                                         due |-> t + SESSION_TIMEOUT]}]

\* scheduleCleanup that arms a timer for every record it finds, whatever its
\* status.
ScheduleCleanupAnyStatus(R, c, id, t) ==
  IF ~GetSession(R, c, id) THEN R
  ELSE LET R1 == IF R.sess[id].timeoutId # 0
                 THEN ClearTimeout(R, R.sess[id].timeoutId) ELSE R
           h == SetTimeout(R1, id)
       IN [R1 EXCEPT !.sess[id].timeoutId = h,
                     !.timers = @ \cup {[h |-> h, c |-> c, id |-> id,
                                         due |-> t + SESSION_TIMEOUT]}]

ScheduleCleanup(R, c, id, t) ==
  IF ~GetSession(R, c, id) \/ R.sess[id].status # "active" THEN R
  ELSE LET R1 == IF R.sess[id].timeoutId # 0
                 THEN ClearTimeout(R, R.sess[id].timeoutId) ELSE R
           h == SetTimeout(R1, id)
       IN [R1 EXCEPT !.sess[id].timeoutId = h,
                     !.timers = @ \cup {[h |-> h, c |-> c, id |-> id,
                                         due |-> t + SESSION_TIMEOUT]}]

\* refreshSession that tests only whether the record exists.
RefreshSessionAnyStatus(R, c, id, t) ==
  IF ~GetSession(R, c, id)
  THEN [ok |-> FALSE, R |-> R]
  ELSE LET R1 == [R EXCEPT !.sess[id].lastActive = t]
           R2 == IF R1.sess[id].timeoutId # 0
                 THEN [ClearTimeout(R1, R1.sess[id].timeoutId)
                         EXCEPT !.sess[id].timeoutId = 0]
                 ELSE R1
       IN [ok |-> TRUE, R |-> ScheduleCleanup(R2, c, id, t)]

RefreshSession(R, c, id, t) ==
  IF ~GetSession(R, c, id) \/ R.sess[id].status # "active"
  THEN [ok |-> FALSE, R |-> R]
  ELSE LET R1 == [R EXCEPT !.sess[id].lastActive = t]
           R2 == IF R1.sess[id].timeoutId # 0
                 THEN [ClearTimeout(R1, R1.sess[id].timeoutId)
                         EXCEPT !.sess[id].timeoutId = 0]
                 ELSE R1
       IN [ok |-> TRUE, R |-> ScheduleCleanup(R2, c, id, t)]

MarkSessionForDeletion(R, c, id) ==
  IF ~GetSession(R, c, id) THEN [ok |-> FALSE, R |-> R]
  ELSE [ok |-> TRUE, R |-> [R EXCEPT !.sess[id].status = "pending_deletion"]]

\* deleteSession that drops the record and lets its timer run on.
DeleteSessionKeepsTimer(R, c, id) ==
  [R EXCEPT !.present[c] = @ \ {id}]

DeleteSession(R, c, id) ==
  LET R1 == IF GetSession(R, c, id) /\ R.sess[id].timeoutId # 0
            THEN ClearTimeout(R, R.sess[id].timeoutId) ELSE R
  IN [R1 EXCEPT !.present[c] = @ \ {id}]

\* An expiry test that looks at idle time alone and passes over the records
\* that are pending_deletion.
IsExpiredIdleOnly(R, id, t) ==
  t - R.sess[id].lastActive > SESSION_TIMEOUT /\ R.sess[id].status = "active"

\* An expiry test that takes a session idle for exactly the timeout as expired.
IsExpiredAtTimeout(R, id, t) ==
  \/ R.sess[id].status = "pending_deletion"
  \/ (t - R.sess[id].lastActive >= SESSION_TIMEOUT /\ R.sess[id].status = "active")

\* An expiry test that takes only the records marked for deletion, however
\* long an active session has been idle.
IsExpiredPendingOnly(R, id, t) ==
  R.sess[id].status = "pending_deletion"

IsExpired(R, id, t) ==
  \/ R.sess[id].status = "pending_deletion"
  \/ (t - R.sess[id].lastActive > SESSION_TIMEOUT /\ R.sess[id].status = "active")

\* The ids of S in ascending order: a Map iterates in insertion order, and a
\* registry's ids are inserted in the order they are generated.
RECURSIVE InOrder(_)
InOrder(S) ==
  IF S = {} THEN << >>
  ELSE LET m == CHOOSE x \in S : \A y \in S : x <= y
       IN <<m>> \o InOrder(S \ {m})

GetExpiredSessions(R, c, t) ==
  InOrder({id \in R.present[c] : IsExpired(R, id, t)})

\* ----------------------------------------------------------- ChatService
\* cleanupSession without the lookup of the record: it goes by the id's
\* session object, whether the registry still holds it or not.
CleanupSessionUnguarded(R, c, id, origin) ==
  LET m == [R EXCEPT !.sess[id].status = "pending_deletion"] IN
    IF m.sess[id].threadId # 0
    THEN [m EXCEPT !.cleanups = @ \cup {[c |-> c, id |-> id, origin |-> origin,
                                         tid |-> m.sess[id].threadId]},
                   !.delCalls[id] = @ + 1]
    ELSE DeleteSession(m, c, id)

\* cleanupSession that asks the backend to delete the thread whether the
\* session has one or not.
CleanupSessionAlwaysRemote(R, c, id, origin) ==
  IF ~GetSession(R, c, id) THEN R
  ELSE LET m == MarkSessionForDeletion(R, c, id) IN
       IF ~m.ok THEN R
       ELSE [m.R EXCEPT !.cleanups = @ \cup {[c |-> c, id |-> id,
                                              origin |-> origin,
                                              tid |-> m.R.sess[id].threadId]},
                        !.delCalls[id] = @ + 1]

\* cleanupSession up to its await of threads.del.
CleanupSession(R, c, id, origin) ==
  IF ~GetSession(R, c, id) THEN R
  ELSE LET m == MarkSessionForDeletion(R, c, id) IN
       IF ~m.ok THEN R
       ELSE IF m.R.sess[id].threadId # 0
            THEN [m.R EXCEPT !.cleanups = @ \cup {[c |-> c, id |-> id,
                                                   origin |-> origin,
                                                   tid |-> m.R.sess[id].threadId]},
                             !.delCalls[id] = @ + 1]
            ELSE DeleteSession(m.R, c, id)

SweepBusy(R, c) == \E k \in R.cleanups : k.c = c /\ k.origin = "sweep"

\* The loop of cleanupExpiredSessions from the ids q on, up to its next await
\* of a remote deletion.
RECURSIVE SweepRun(_, _, _)
SweepRun(R, c, q) ==
  IF q = << >> THEN [R |-> R, q |-> << >>]
  ELSE LET R1 == CleanupSession(R, c, Head(q), "sweep")
       IN IF SweepBusy(R1, c) THEN [R |-> R1, q |-> Tail(q)]
          ELSE SweepRun(R1, c, Tail(q))

Commit(R) ==
  /\ sess' = R.sess
  /\ present' = R.present
  /\ timers' = R.timers
  /\ cleanups' = R.cleanups
  /\ delCalls' = R.delCalls

\* A handlePrompt invocation: full is its local fullResponse, said the reply
\* text it has passed to the suggestion generator.  The n-th fragment that the
\* stream of turn k delivers is written <<k, n>>.
NoTurn == [c |-> "c1", id |-> 0, pc |-> "none", tid |-> 0, stream |-> 0, n |-> 0,
           out |-> << >>, full |-> << >>, said |-> << >>]

Emit(k, ev) == [turns EXCEPT ![k].out = Append(@, ev)]

\* ------------------------------------------------------------------ Init
Init ==
  /\ now = 0
  /\ nextId = 0
  /\ sess = [id \in Ids |-> NoSession]
  /\ present = [c \in Conns |-> {}]
  /\ timers = {}
  /\ connState = [c \in Conns |-> "new"]
  /\ sessionId = [c \in Conns |-> 0]
  /\ reply = [c \in Conns |-> [req |-> -1, ev |-> "none", sid |-> 0, info |-> FALSE,
                                   at |-> 0]]
  /\ assistant = [c \in Conns |-> FALSE]
  /\ sweptAt = [c \in Conns |-> 0]
  /\ sweepQ = [c \in Conns |-> << >>]
  /\ cleanups = {}
  /\ threads = {}
  /\ nextThread = 0
  /\ turns = [k \in 1 .. MaxTurns |-> NoTurn]
  /\ delCalls = [id \in Ids |-> 0]
  /\ clearChats = [id \in Ids |-> 0]
  /\ calls = << >>

\* ------------------------------------------------------- socket handlers
\* io.on('connection'): setupSocketHandlers builds a ChatService of its own
\* for the socket, with its own SessionManager and its own sweep interval.
Connect(c) ==
  /\ connState[c] = "new"
  /\ connState' = [connState EXCEPT ![c] = "open"]
  /\ sweptAt' = [sweptAt EXCEPT ![c] = now]
  /\ UNCHANGED <<now, nextId, sess, present, timers, sessionId, reply, assistant,
                 sweepQ, cleanups, threads, nextThread, turns, delCalls,
                 clearChats, calls>>

InitSession(c) ==
  /\ connState[c] = "open"
  /\ nextId < MaxSessions
  /\ LET id == nextId + 1 IN
       /\ Commit(CreateSession(Reg, c, id, now))
       /\ nextId' = id
       /\ sessionId' = [sessionId EXCEPT ![c] = id]
       /\ reply' = [reply EXCEPT ![c] = [req |-> -1, ev |-> "session_created",
                                         sid |-> id, info |-> FALSE,
                                         at |-> now]]
  /\ UNCHANGED <<now, connState, assistant, sweptAt, sweepQ, threads, nextThread,
                 turns, clearChats, calls>>

\* resume_session that accepts every id that has a record, whatever its
\* status.
ResumeSessionAnyRecord(c, id) ==
  /\ connState[c] = "open"
  /\ IF id # 0 /\ GetSession(Reg, c, id)
     THEN /\ Commit(RefreshSession(Reg, c, id, now).R)
          /\ sessionId' = [sessionId EXCEPT ![c] = id]
          /\ reply' = [reply EXCEPT ![c] = [req |-> id, ev |-> "session_resumed",
                                            sid |-> id, info |-> FALSE,
                                         at |-> now]]
          /\ UNCHANGED nextId
     ELSE /\ nextId < MaxSessions
          /\ Commit(CreateSession(Reg, c, nextId + 1, now))
          /\ nextId' = nextId + 1
          /\ sessionId' = [sessionId EXCEPT ![c] = nextId + 1]
          /\ reply' = [reply EXCEPT ![c] = [req |-> id, ev |-> "session_created",
                                            sid |-> nextId + 1, info |-> FALSE,
                                         at |-> now]]
  /\ UNCHANGED <<now, connState, assistant, sweptAt, sweepQ, threads, nextThread,
                 turns, clearChats, calls>>

\* resume_session with data.sessionId = id (0: missing).
ResumeSession(c, id) ==
  /\ connState[c] = "open"
  /\ IF id # 0 /\ HasSession(Reg, c, id)
     THEN LET r == RefreshSession(Reg, c, id, now) IN
          IF r.ok
          THEN /\ Commit(r.R)
               /\ sessionId' = [sessionId EXCEPT ![c] = id]
               /\ reply' = [reply EXCEPT ![c] = [req |-> id, ev |-> "session_resumed",
                                                 sid |-> id, info |-> FALSE,
                                         at |-> now]]
               /\ UNCHANGED nextId
          ELSE /\ nextId < MaxSessions
               /\ Commit(CreateSession(r.R, c, nextId + 1, now))
               /\ nextId' = nextId + 1
               /\ sessionId' = [sessionId EXCEPT ![c] = nextId + 1]
               /\ reply' = [reply EXCEPT ![c] = [req |-> id, ev |-> "session_created",
                                                 sid |-> nextId + 1, info |-> TRUE,
                                         at |-> now]]
     ELSE /\ nextId < MaxSessions
          /\ Commit(CreateSession(Reg, c, nextId + 1, now))
          /\ nextId' = nextId + 1
          /\ sessionId' = [sessionId EXCEPT ![c] = nextId + 1]
          /\ reply' = [reply EXCEPT ![c] = [req |-> id, ev |-> "session_created",
                                            sid |-> nextId + 1, info |-> FALSE,
                                         at |-> now]]
  /\ UNCHANGED <<now, connState, assistant, sweptAt, sweepQ, threads, nextThread,
                 turns, clearChats, calls>>

\* send_prompt that stamps the record it finds before it looks at its status.
SendPromptTouches(c, k) ==
  /\ connState[c] = "open"
  /\ turns[k].pc = "none"
  /\ \A j \in 1 .. (k - 1) : turns[j].pc # "none"
  /\ LET id == sessionId[c]
         fresh == [NoTurn EXCEPT !.c = c, !.id = id]
         failed == [fresh EXCEPT !.pc = "rejected", !.out = <<"error">>]
     IN IF id = 0 \/ ~HasSession(Reg, c, id)
        THEN /\ turns' = [turns EXCEPT ![k] = failed]
             /\ sess' = IF id # 0 /\ GetSession(Reg, c, id)
                        THEN [sess EXCEPT ![id].lastActive = now] ELSE sess
             /\ UNCHANGED <<present, timers, cleanups, delCalls>>
        ELSE LET r == RefreshSession(Reg, c, id, now) IN
             /\ Commit(r.R)
             /\ turns' = [turns EXCEPT ![k] =
                  IF ~r.ok THEN failed
                  ELSE IF ~GetSession(r.R, c, id) \/ r.R.sess[id].status # "active"
                       THEN failed
                       ELSE [fresh EXCEPT !.pc = "retrieve"]]
  /\ UNCHANGED <<now, nextId, connState, sessionId, reply, assistant, sweptAt,
                 sweepQ, threads, nextThread, clearChats, calls>>

\* send_prompt, up to handlePrompt's await of retrieveAssistant; k is the
\* number of the turn in order of arrival.
SendPrompt(c, k) ==
  /\ connState[c] = "open"
  /\ turns[k].pc = "none"
  /\ \A j \in 1 .. (k - 1) : turns[j].pc # "none"
  /\ LET id == sessionId[c]
         fresh == [NoTurn EXCEPT !.c = c, !.id = id]
         failed == [fresh EXCEPT !.pc = "rejected", !.out = <<"error">>]
     IN IF id = 0 \/ ~HasSession(Reg, c, id)
        THEN /\ turns' = [turns EXCEPT ![k] = failed]
             /\ UNCHANGED <<sess, present, timers, cleanups, delCalls>>
        ELSE LET r == RefreshSession(Reg, c, id, now) IN
             /\ Commit(r.R)
             /\ turns' = [turns EXCEPT ![k] =
                  IF ~r.ok THEN failed
                  ELSE IF ~GetSession(r.R, c, id) \/ r.R.sess[id].status # "active"
                       THEN failed
                       ELSE [fresh EXCEPT !.pc = "retrieve"]]
  /\ UNCHANGED <<now, nextId, connState, sessionId, reply, assistant, sweptAt,
                 sweepQ, threads, nextThread, clearChats, calls>>

\* A disconnect handler that also aborts the connection's turns: their
\* streams deliver nothing more.
DisconnectCancels(c) ==
  /\ connState[c] = "open"
  /\ connState' = [connState EXCEPT ![c] = "closed"]
  /\ Commit(IF sessionId[c] # 0 /\ HasSession(Reg, c, sessionId[c])
            THEN ScheduleCleanup(Reg, c, sessionId[c], now) ELSE Reg)
  /\ turns' = [k \in 1 .. MaxTurns |->
                IF turns[k].c = c /\ turns[k].pc \notin {"none", "rejected", "done"}
                THEN [turns[k] EXCEPT !.pc = "done"] ELSE turns[k]]
  /\ UNCHANGED <<now, nextId, sessionId, reply, assistant, sweptAt, sweepQ,
                 threads, nextThread, clearChats, calls>>

\* A disconnect handler that cleans the session up at once instead of
\* scheduling it.
DisconnectCleansUp(c) ==
  /\ connState[c] = "open"
  /\ connState' = [connState EXCEPT ![c] = "closed"]
  /\ Commit(IF sessionId[c] # 0 /\ HasSession(Reg, c, sessionId[c])
            THEN CleanupSession(Reg, c, sessionId[c], "timer") ELSE Reg)
  /\ UNCHANGED <<now, nextId, sessionId, reply, assistant, sweptAt, sweepQ,
                 threads, nextThread, turns, clearChats, calls>>

\* disconnect: the cleanup of the connection's session is scheduled.
Disconnect(c) ==
  /\ connState[c] = "open"
  /\ connState' = [connState EXCEPT ![c] = "closed"]
  /\ Commit(IF sessionId[c] # 0 /\ HasSession(Reg, c, sessionId[c])
            THEN ScheduleCleanup(Reg, c, sessionId[c], now) ELSE Reg)
  /\ UNCHANGED <<now, nextId, sessionId, reply, assistant, sweptAt, sweepQ,
                 threads, nextThread, turns, clearChats, calls>>

\* ------------------------------------------------------------ handlePrompt
\* retrieveAssistant settles; it can fail only while nothing is cached.
RetrieveDone(k, ok) ==
  /\ turns[k].pc = "retrieve"
  /\ ok \/ ~assistant[turns[k].c]
  /\ IF ok
     THEN /\ assistant' = [assistant EXCEPT ![turns[k].c] = TRUE]
          /\ turns' = [turns EXCEPT ![k] =
               IF sess[turns[k].id].threadId = 0
               THEN [@ EXCEPT !.pc = "create"]
               ELSE [@ EXCEPT !.pc = "append", !.tid = sess[turns[k].id].threadId]]
     ELSE /\ turns' = [Emit(k, "error") EXCEPT ![k].pc = "done"]
          /\ UNCHANGED assistant
  /\ UNCHANGED <<now, nextId, sess, present, timers, connState, sessionId, reply,
                 sweptAt, sweepQ, cleanups, threads, nextThread, delCalls,
                 clearChats, calls>>

\* threads.create settles: the new thread is bound to the session object the
\* turn holds, and the prompt is sent to it.
CreateDone(k, ok) ==
  /\ turns[k].pc = "create"
  /\ IF ok
     THEN /\ nextThread < MaxThreads
          /\ nextThread' = nextThread + 1
          /\ threads' = threads \cup {nextThread + 1}
          /\ sess' = [sess EXCEPT ![turns[k].id].threadId = nextThread + 1]
          /\ turns' = [turns EXCEPT ![k].pc = "append", ![k].tid = nextThread + 1]
     ELSE /\ turns' = [Emit(k, "error") EXCEPT ![k].pc = "done"]
          /\ UNCHANGED <<nextThread, threads, sess>>
  /\ UNCHANGED <<now, nextId, present, timers, connState, sessionId, reply,
                 assistant, sweptAt, sweepQ, cleanups, delCalls, clearChats,
                 calls>>

\* A handlePrompt that gives the session up when the backend fails it: the
\* record is marked for deletion.
AppendDoneGivesUp(k, res) ==
  /\ turns[k].pc = "append"
  /\ res = "ok" => turns[k].tid \in threads
  /\ turns' = IF res = "ok"
              THEN [turns EXCEPT ![k].pc = "stream",
                                 ![k].stream = sess[turns[k].id].threadId]
              ELSE [Emit(k, "error") EXCEPT ![k].pc = "done"]
  /\ sess' = IF res = "ok" THEN sess
             ELSE [sess EXCEPT ![turns[k].id].status = "pending_deletion"]
  /\ UNCHANGED <<now, nextId, present, timers, connState, sessionId, reply,
                 assistant, sweptAt, sweepQ, cleanups, threads, nextThread,
                 delCalls, clearChats, calls>>

\* threads.messages.create settles; on success runs.stream is called on the
\* session's thread and either returns a stream or throws.
AppendDone(k, res) ==
  /\ turns[k].pc = "append"
  /\ res = "ok" => turns[k].tid \in threads
  /\ turns' = IF res = "ok"
              THEN [turns EXCEPT ![k].pc = "stream",
                                 ![k].stream = sess[turns[k].id].threadId]
              ELSE [Emit(k, "error") EXCEPT ![k].pc = "done"]
  /\ UNCHANGED <<now, nextId, sess, present, timers, connState, sessionId, reply,
                 assistant, sweptAt, sweepQ, cleanups, threads, nextThread,
                 delCalls, clearChats, calls>>

StreamTextCreated(k) ==
  /\ turns[k].pc = "stream"
  /\ turns' = [Emit(k, "textCreated") EXCEPT ![k].pc = "deltas"]
  /\ UNCHANGED <<now, nextId, sess, present, timers, connState, sessionId, reply,
                 assistant, sweptAt, sweepQ, cleanups, threads, nextThread,
                 delCalls, clearChats, calls>>

\* A textDelta handler that takes the delta from the stream without sending it
\* on to the client.
StreamTextDeltaDropped(k) ==
  /\ turns[k].pc = "deltas"
  /\ turns[k].n < MaxDeltas
  /\ turns' = [turns EXCEPT ![k].n = @ + 1,
                             ![k].full = Append(@, <<k, turns[k].n + 1>>)]
  /\ UNCHANGED <<now, nextId, sess, present, timers, connState, sessionId, reply,
                 assistant, sweptAt, sweepQ, cleanups, threads, nextThread,
                 delCalls, clearChats, calls>>

\* A textDelta handler that collects the reply in one string shared by all
\* the turns, not in a string of its own invocation.
StreamTextDeltaShared(k) ==
  /\ turns[k].pc = "deltas"
  /\ turns[k].n < MaxDeltas
  /\ turns' = [j \in 1 .. MaxTurns |->
                LET t == IF j = k THEN [Emit(k, "textDelta")[k] EXCEPT !.n = @ + 1]
                         ELSE turns[j]
                IN IF t.pc = "none" THEN t
                   ELSE [t EXCEPT !.full = Append(@, <<k, turns[k].n + 1>>)]]
  /\ UNCHANGED <<now, nextId, sess, present, timers, connState, sessionId, reply,
                 assistant, sweptAt, sweepQ, cleanups, threads, nextThread,
                 delCalls, clearChats, calls>>

StreamTextDelta(k) ==
  /\ turns[k].pc = "deltas"
  /\ turns[k].n < MaxDeltas
  /\ turns' = [Emit(k, "textDelta") EXCEPT ![k].n = @ + 1,
                                            ![k].full = Append(@, <<k, turns[k].n + 1>>)]
  /\ UNCHANGED <<now, nextId, sess, present, timers, connState, sessionId, reply,
                 assistant, sweptAt, sweepQ, cleanups, threads, nextThread,
                 delCalls, clearChats, calls>>

\* The stream's error handler: it reports the error to the client and leaves
\* the other handlers registered.
StreamError(k) ==
  /\ turns[k].pc \in {"stream", "deltas"}
  /\ turns' = [Emit(k, "error") EXCEPT ![k].pc = "failed"]
  /\ UNCHANGED <<now, nextId, sess, present, timers, connState, sessionId, reply,
                 assistant, sweptAt, sweepQ, cleanups, threads, nextThread,
                 delCalls, clearChats, calls>>

\* The stream's end handler up to its await of suggestionGenerator.generate.
\* The stream emits end when the run is over, and a stream that has failed may
\* emit end after its error: the handler runs whenever end arrives.
StreamEnd(k) ==
  /\ turns[k].pc \in {"stream", "deltas", "failed"}
  /\ turns' = [Emit(k, "responseComplete") EXCEPT ![k].pc = "suggest",
                                                   ![k].said = turns[k].full]
  /\ UNCHANGED <<now, nextId, sess, present, timers, connState, sessionId, reply,
                 assistant, sweptAt, sweepQ, cleanups, threads, nextThread,
                 delCalls, clearChats, calls>>

\* An end handler that gives up when generate has failed: nothing is emitted
\* and the session's cleanup is not scheduled.
SuggestDoneGivesUp(k, ok) ==
  /\ turns[k].pc = "suggest"
  /\ turns' = IF ok THEN [Emit(k, "suggestions") EXCEPT ![k].pc = "done"]
              ELSE [Emit(k, "suggestions_empty") EXCEPT ![k].pc = "done"]
  /\ Commit(IF ok THEN ScheduleCleanup(Reg, turns[k].c, turns[k].id, now) ELSE Reg)
  /\ UNCHANGED <<now, nextId, connState, sessionId, reply, assistant, sweptAt,
                 sweepQ, threads, nextThread, clearChats, calls>>

\* generate settles with the quick replies, or with [] when it failed inside;
\* the handler emits what it got and schedules the session's cleanup.
SuggestDone(k, ok) ==
  /\ turns[k].pc = "suggest"
  /\ turns' = [Emit(k, IF ok THEN "suggestions" ELSE "suggestions_empty")
                 EXCEPT ![k].pc = "done"]
  /\ Commit(ScheduleCleanup(Reg, turns[k].c, turns[k].id, now))
  /\ UNCHANGED <<now, nextId, connState, sessionId, reply, assistant, sweptAt,
                 sweepQ, threads, nextThread, clearChats, calls>>

\* --------------------------------------------------- timers and the sweep
\* A session's timer fires: the cleanup callback runs up to its first await.
TimerFire(x) ==
  /\ x \in timers
  /\ x.due <= now
  /\ Commit(CleanupSession([Reg EXCEPT !.timers = @ \ {x}], x.c, x.id, "timer"))
  /\ UNCHANGED <<now, nextId, connState, sessionId, reply, assistant, sweptAt,
                 sweepQ, threads, nextThread, turns, clearChats, calls>>

\* The interval of a ChatService fires: cleanupExpiredSessions runs up to its
\* first await of a remote deletion.  A sweep still awaiting is not overlapped
\* by the next one.
SweepStart(c) ==
  /\ connState[c] # "new"
  /\ now - sweptAt[c] >= SWEEP_INTERVAL
  /\ ~SweepBusy(Reg, c)
  /\ sweptAt' = [sweptAt EXCEPT ![c] = now]
  /\ LET r == SweepRun(Reg, c, GetExpiredSessions(Reg, c, now)) IN
       /\ Commit(r.R)
       /\ sweepQ' = [sweepQ EXCEPT ![c] = r.q]
  /\ UNCHANGED <<now, nextId, connState, sessionId, reply, assistant, threads,
                 nextThread, turns, clearChats, calls>>

DelResults == {"ok", "notfound", "error", "lost"}

\* A cleanup that removes the record whatever the remote deletion answered.
DelDoneDropsOnError(k, res) ==
  /\ k \in cleanups
  /\ res = "ok" => k.tid \in threads
  /\ res = "notfound" => k.tid \notin threads
  /\ res = "lost" => k.tid \in threads
  /\ threads' = IF res \in {"ok", "lost"} THEN threads \ {k.tid} ELSE threads
  /\ clearChats' = IF res = "ok" THEN [clearChats EXCEPT ![k.id] = @ + 1]
                   ELSE clearChats
  /\ LET R0 == [Reg EXCEPT !.cleanups = @ \ {k}]
         R1 == DeleteSession(R0, k.c, k.id)
         r == IF k.origin = "sweep" THEN SweepRun(R1, k.c, sweepQ[k.c])
              ELSE [R |-> R1, q |-> sweepQ[k.c]]
     IN /\ Commit(r.R)
        /\ sweepQ' = [sweepQ EXCEPT ![k.c] = r.q]
  /\ UNCHANGED <<now, nextId, connState, sessionId, reply, assistant, sweptAt,
                 nextThread, turns, calls>>

\* A cleanup that keeps the record on every failure of the remote deletion,
\* the 404 included.
DelDoneKeepsOnNotFound(k, res) ==
  /\ k \in cleanups
  /\ res = "ok" => k.tid \in threads
  /\ res = "notfound" => k.tid \notin threads
  /\ res = "lost" => k.tid \in threads
  /\ threads' = IF res \in {"ok", "lost"} THEN threads \ {k.tid} ELSE threads
  /\ clearChats' = IF res = "ok" THEN [clearChats EXCEPT ![k.id] = @ + 1]
                   ELSE clearChats
  /\ LET R0 == [Reg EXCEPT !.cleanups = @ \ {k}]
         R1 == IF res \in {"error", "lost", "notfound"} THEN R0
               ELSE DeleteSession(R0, k.c, k.id)
         r == IF k.origin = "sweep" THEN SweepRun(R1, k.c, sweepQ[k.c])
              ELSE [R |-> R1, q |-> sweepQ[k.c]]
     IN /\ Commit(r.R)
        /\ sweepQ' = [sweepQ EXCEPT ![k.c] = r.q]
  /\ UNCHANGED <<now, nextId, connState, sessionId, reply, assistant, sweptAt,
                 nextThread, turns, calls>>

\* A cleanup that broadcasts clear_chat whatever the remote deletion answered.
DelDoneBroadcastsFirst(k, res) ==
  /\ k \in cleanups
  /\ res = "ok" => k.tid \in threads
  /\ res = "notfound" => k.tid \notin threads
  /\ res = "lost" => k.tid \in threads
  /\ threads' = IF res \in {"ok", "lost"} THEN threads \ {k.tid} ELSE threads
  /\ clearChats' = [clearChats EXCEPT ![k.id] = @ + 1]
  /\ LET R0 == [Reg EXCEPT !.cleanups = @ \ {k}]
         R1 == IF res \in {"error", "lost"} THEN R0
               ELSE DeleteSession(R0, k.c, k.id)
         r == IF k.origin = "sweep" THEN SweepRun(R1, k.c, sweepQ[k.c])
              ELSE [R |-> R1, q |-> sweepQ[k.c]]
     IN /\ Commit(r.R)
        /\ sweepQ' = [sweepQ EXCEPT ![k.c] = r.q]
  /\ UNCHANGED <<now, nextId, connState, sessionId, reply, assistant, sweptAt,
                 nextThread, turns, calls>>

\* A sweep that ends when a remote deletion it awaited has failed: the ids
\* that remain on its list are not visited.
DelDoneAbortsSweep(k, res) ==
  /\ k \in cleanups
  /\ res = "ok" => k.tid \in threads
  /\ res = "notfound" => k.tid \notin threads
  /\ res = "lost" => k.tid \in threads
  /\ threads' = IF res \in {"ok", "lost"} THEN threads \ {k.tid} ELSE threads
  /\ clearChats' = IF res = "ok" THEN [clearChats EXCEPT ![k.id] = @ + 1]
                   ELSE clearChats
  /\ LET R0 == [Reg EXCEPT !.cleanups = @ \ {k}]
         R1 == IF res \in {"error", "lost"} THEN R0
               ELSE DeleteSession(R0, k.c, k.id)
         r == IF k.origin = "sweep" /\ res \in {"error", "lost"}
              THEN [R |-> R1, q |-> << >>]
              ELSE IF k.origin = "sweep" THEN SweepRun(R1, k.c, sweepQ[k.c])
              ELSE [R |-> R1, q |-> sweepQ[k.c]]
     IN /\ Commit(r.R)
        /\ sweepQ' = [sweepQ EXCEPT ![k.c] = r.q]
  /\ UNCHANGED <<now, nextId, connState, sessionId, reply, assistant, sweptAt,
                 nextThread, turns, calls>>

\* threads.del settles for the cleanup k: deleted ("ok"), 404 ("notfound"), or
\* another failure, which either left the thread in place ("error") or came
\* after the backend had deleted it ("lost": the answer did not arrive).
DelDone(k, res) ==
  /\ k \in cleanups
  /\ res = "ok" => k.tid \in threads
  /\ res = "notfound" => k.tid \notin threads
  /\ res = "lost" => k.tid \in threads
  /\ threads' = IF res \in {"ok", "lost"} THEN threads \ {k.tid} ELSE threads
  /\ clearChats' = IF res = "ok" THEN [clearChats EXCEPT ![k.id] = @ + 1]
                   ELSE clearChats
  /\ LET R0 == [Reg EXCEPT !.cleanups = @ \ {k}]
         R1 == IF res \in {"error", "lost"} THEN R0
               ELSE DeleteSession(R0, k.c, k.id)
         r == IF k.origin = "sweep" THEN SweepRun(R1, k.c, sweepQ[k.c])
              ELSE [R |-> R1, q |-> sweepQ[k.c]]
     IN /\ Commit(r.R)
        /\ sweepQ' = [sweepQ EXCEPT ![k.c] = r.q]
  /\ UNCHANGED <<now, nextId, connState, sessionId, reply, assistant, sweptAt,
                 nextThread, turns, calls>>

\* A quarter of an hour passes.  Timers that are due and intervals that are due
\* fire before the clock moves on.
Tick ==
  /\ now < MaxTime
  /\ \A x \in timers : x.due > now
  /\ \A c \in Conns : connState[c] # "new" =>
        (now - sweptAt[c] < SWEEP_INTERVAL \/ SweepBusy(Reg, c))
  /\ now' = now + 1
  /\ UNCHANGED <<nextId, sess, present, timers, connState, sessionId, reply,
                 assistant, sweptAt, sweepQ, cleanups, threads, nextThread, turns,
                 delCalls, clearChats, calls>>

\* A time reading as it is a quarter of an hour later on a clock that has
\* reached its horizon: readings are kept relative to now, and one that lies
\* MaxTime or more back stays there (MaxTime is beyond the idle timeout, so no
\* comparison with it changes).
Earlier(t) == IF t > 0 THEN t - 1 ELSE 0

\* A quarter of an hour passes at the clock's horizon: now keeps its reading
\* and every other reading moves one unit back.
TickBeyond ==
  /\ now = MaxTime
  /\ \A x \in timers : x.due > now
  /\ \A c \in Conns : connState[c] # "new" =>
        (now - sweptAt[c] < SWEEP_INTERVAL \/ SweepBusy(Reg, c))
  /\ sess' = [id \in Ids |-> [sess[id] EXCEPT !.lastActive = Earlier(@)]]
  /\ timers' = {[x EXCEPT !.due = @ - 1] : x \in timers}
  /\ sweptAt' = [c \in Conns |-> Earlier(sweptAt[c])]
  /\ reply' = [c \in Conns |-> [reply[c] EXCEPT !.at = Earlier(@)]]
  /\ UNCHANGED <<now, nextId, present, connState, sessionId, assistant, sweepQ,
                 cleanups, threads, nextThread, turns, delCalls, clearChats,
                 calls>>

\* What a client can send as data.sessionId: nothing (0), an id some
\* session_created has carried, or an id of its own making.
ResumeInputs == (0 .. nextId) \cup {UnknownId}

\* One client on one connection, which sends up to MainTurns prompts.
Next ==
  \/ \E c \in MainConns : Connect(c)
  \/ \E c \in MainConns : InitSession(c)
  \/ \E c \in MainConns, id \in ResumeInputs : ResumeSession(c, id)
  \/ \E c \in MainConns, k \in 1 .. MainTurns : SendPrompt(c, k)
  \/ \E c \in MainConns : Disconnect(c)
  \/ \E k \in 1 .. MaxTurns, ok \in BOOLEAN : RetrieveDone(k, ok)
  \/ \E k \in 1 .. MaxTurns, ok \in BOOLEAN : CreateDone(k, ok)
  \/ \E k \in 1 .. MaxTurns, res \in {"ok", "fail", "throw"} : AppendDone(k, res)
  \/ \E k \in 1 .. MaxTurns : StreamTextCreated(k)
  \/ \E k \in 1 .. MaxTurns : StreamTextDelta(k)
  \/ \E k \in 1 .. MaxTurns : StreamError(k)
  \/ \E k \in 1 .. MaxTurns : StreamEnd(k)
  \/ \E k \in 1 .. MaxTurns, ok \in BOOLEAN : SuggestDone(k, ok)
  \/ \E x \in timers : TimerFire(x)
  \/ \E c \in MainConns : SweepStart(c)
  \/ \E k \in cleanups, res \in DelResults : DelDone(k, res)
  \/ Tick

Spec == Init /\ [][Next]_vars

\* Two client connections that open, establish or resume sessions and close;
\* no prompts are sent.
NextConns ==
  \/ \E c \in Conns : Connect(c)
  \/ \E c \in Conns : InitSession(c)
  \/ \E c \in Conns, id \in ResumeInputs : ResumeSession(c, id)
  \/ \E c \in Conns : Disconnect(c)
  \/ \E x \in timers : TimerFire(x)
  \/ \E c \in Conns : SweepStart(c)
  \/ Tick

SpecConns == Init /\ [][NextConns]_vars

\* One connection with one session, on which prompts overlap; the clock
\* stands still.
NextTurns ==
  \/ \E c \in MainConns : Connect(c)
  \/ \E c \in MainConns : InitSession(c) /\ nextId = 0
  \/ \E c \in MainConns, k \in 1 .. MaxTurns : SendPrompt(c, k)
  \/ \E k \in 1 .. MaxTurns, ok \in BOOLEAN : RetrieveDone(k, ok)
  \/ \E k \in 1 .. MaxTurns, ok \in BOOLEAN : CreateDone(k, ok)
  \/ \E k \in 1 .. MaxTurns, res \in {"ok", "fail", "throw"} : AppendDone(k, res)
  \/ \E k \in 1 .. MaxTurns : StreamTextCreated(k)
  \/ \E k \in 1 .. MaxTurns : StreamTextDelta(k)
  \/ \E k \in 1 .. MaxTurns : StreamError(k)
  \/ \E k \in 1 .. MaxTurns : StreamEnd(k)
  \/ \E k \in 1 .. MaxTurns, ok \in BOOLEAN : SuggestDone(k, ok)

SpecTurns == Init /\ [][NextTurns]_vars

\* A turn that will emit nothing more unless its stream still ends.
Settled(k) == turns[k].pc \in {"done", "rejected", "failed"}

\* One connection with one session, on which the client sends its prompts one
\* after the other, each when the turn before has settled, while the clock,
\* the timers and the sweep run.
NextSeq ==
  \/ \E c \in MainConns : Connect(c)
  \/ \E c \in MainConns : InitSession(c) /\ nextId = 0
  \/ \E c \in MainConns, k \in 1 .. MaxTurns :
       SendPrompt(c, k) /\ \A j \in 1 .. (k - 1) : Settled(j)
  \/ \E k \in 1 .. MaxTurns, ok \in BOOLEAN : RetrieveDone(k, ok)
  \/ \E k \in 1 .. MaxTurns, ok \in BOOLEAN : CreateDone(k, ok)
  \/ \E k \in 1 .. MaxTurns, res \in {"ok", "fail", "throw"} : AppendDone(k, res)
  \/ \E k \in 1 .. MaxTurns : StreamTextCreated(k)
  \/ \E k \in 1 .. MaxTurns : StreamTextDelta(k)
  \/ \E k \in 1 .. MaxTurns : StreamError(k)
  \/ \E k \in 1 .. MaxTurns : StreamEnd(k)
  \/ \E k \in 1 .. MaxTurns, ok \in BOOLEAN : SuggestDone(k, ok)
  \/ \E x \in timers : TimerFire(x)
  \/ \E c \in MainConns : SweepStart(c)
  \/ \E k \in cleanups, res \in DelResults : DelDone(k, res)
  \/ Tick

SpecSeq == Init /\ [][NextSeq]_vars

\* One connection with one session and up to MainTurns prompts, on a clock that
\* never stops: time passes, timers and the sweep interval fire when they are
\* due, and for each session the remote deletion, after failing for up to
\* MaxRetries calls, answers with success or with 404.
NextLive ==
  \/ \E c \in MainConns : Connect(c)
  \/ \E c \in MainConns : InitSession(c) /\ nextId = 0
  \/ \E c \in MainConns, k \in 1 .. MainTurns : SendPrompt(c, k)
  \/ \E k \in 1 .. MaxTurns, ok \in BOOLEAN : RetrieveDone(k, ok)
  \/ \E k \in 1 .. MaxTurns, ok \in BOOLEAN : CreateDone(k, ok)
  \/ \E k \in 1 .. MaxTurns, res \in {"ok", "fail", "throw"} : AppendDone(k, res)
  \/ \E k \in 1 .. MaxTurns : StreamTextCreated(k)
  \/ \E k \in 1 .. MaxTurns : StreamTextDelta(k)
  \/ \E k \in 1 .. MaxTurns : StreamError(k)
  \/ \E k \in 1 .. MaxTurns : StreamEnd(k)
  \/ \E k \in 1 .. MaxTurns, ok \in BOOLEAN : SuggestDone(k, ok)
  \/ \E x \in timers : TimerFire(x)
  \/ \E c \in MainConns : SweepStart(c)
  \/ \E k \in cleanups, res \in DelResults :
       DelDone(k, res) /\ (res \in {"error", "lost"} => delCalls[k.id] <= MaxRetries)
  \/ Tick
  \/ TickBeyond

DeletionSettles(id) ==
  \E k \in cleanups : k.id = id /\ (DelDone(k, "ok") \/ DelDone(k, "notfound"))

SpecLive ==
  /\ Init
  /\ [][NextLive]_vars
  /\ WF_vars(Tick \/ TickBeyond)
  /\ WF_vars(\E x \in timers : TimerFire(x))
  /\ \A c \in MainConns : WF_vars(SweepStart(c))
  /\ \A id \in Ids : WF_vars(DeletionSettles(id))

\* ------------------------------------------- the SessionManager's own API
\* A SessionManager driven directly through its methods, in any order and on
\* any id, with a cleanup callback that does nothing.
Api == "c1"

StatusOf(R, id) == IF GetSession(R, Api, id) THEN R.sess[id].status ELSE "absent"

Called(op, id, ok) ==
  calls' = (IF Len(calls) = 2 THEN Tail(calls) ELSE calls)
             \o <<[op |-> op, id |-> id, ok |-> ok, pre |-> StatusOf(Reg, id)]>>

ApiFrame == UNCHANGED <<now, connState, sessionId, reply, assistant, sweptAt,
                        sweepQ, threads, nextThread, turns, clearChats>>

ApiCreate ==
  /\ nextId < MaxSessions
  /\ Commit(CreateSession(Reg, Api, nextId + 1, now))
  /\ nextId' = nextId + 1
  /\ Called("create", nextId + 1, TRUE)
  /\ ApiFrame

ApiRefresh(id) ==
  /\ LET r == RefreshSession(Reg, Api, id, now) IN
       Commit(r.R) /\ Called("refresh", id, r.ok)
  /\ UNCHANGED nextId
  /\ ApiFrame

ApiSchedule(id) ==
  /\ Commit(ScheduleCleanup(Reg, Api, id, now))
  /\ Called("schedule", id, TRUE)
  /\ UNCHANGED nextId
  /\ ApiFrame

ApiMark(id) ==
  /\ LET m == MarkSessionForDeletion(Reg, Api, id) IN
       Commit(m.R) /\ Called("mark", id, m.ok)
  /\ UNCHANGED nextId
  /\ ApiFrame

ApiDelete(id) ==
  /\ Commit(DeleteSession(Reg, Api, id))
  /\ Called("delete", id, TRUE)
  /\ UNCHANGED nextId
  /\ ApiFrame

ApiTimerFire(x) ==
  /\ x \in timers
  /\ x.due <= now
  /\ timers' = timers \ {x}
  /\ Called("callback", x.id, TRUE)
  /\ UNCHANGED <<nextId, sess, present, cleanups, delCalls>>
  /\ ApiFrame

ApiTick ==
  /\ now < MaxTime
  /\ \A x \in timers : x.due > now
  /\ now' = now + 1
  /\ UNCHANGED <<nextId, sess, present, timers, connState, sessionId, reply,
                 assistant, sweptAt, sweepQ, cleanups, threads, nextThread, turns,
                 delCalls, clearChats, calls>>

NextApi ==
  \/ ApiCreate
  \/ \E id \in Ids : ApiRefresh(id)
  \/ \E id \in Ids : ApiSchedule(id)
  \/ \E id \in Ids : ApiMark(id)
  \/ \E id \in Ids : ApiDelete(id)
  \/ \E x \in timers : ApiTimerFire(x)
  \/ ApiTick

SpecApi == Init /\ [][NextApi]_vars

\* ================================================================= claims

LiveTimers(id) == {x \in timers : x.id = id}

Overlapping(id) ==
  \E a, b \in cleanups : a.id = id /\ b.id = id
                         /\ a.origin = "timer" /\ b.origin = "sweep"

\* C1: when a cleanup started by the session's timer and a cleanup started by
\* the sweep overlap (both are awaiting the remote deletion), threads.del has
\* been called exactly once for the session and clear_chat is broadcast at most
\* once.
C1_OverlapDeletesOnce ==
  \A id \in Ids : Overlapping(id) => delCalls[id] = 1 /\ clearChats[id] <= 1

\* C2: markSessionForDeletion called twice in a row on the same session, which
\* was active before the first call, returns true and then false; it returns
\* false for an id that has no record.
C2_MarkTrueThenFalse ==
  /\ \A i \in 1 .. Len(calls) :
       (calls[i].op = "mark" /\ calls[i].pre = "absent") => ~calls[i].ok
  /\ (Len(calls) = 2 /\ calls[1].op = "mark" /\ calls[2].op = "mark"
      /\ calls[1].id = calls[2].id /\ calls[1].pre = "active")
       => (calls[1].ok /\ ~calls[2].ok)

\* C3: every session has at most one live expiration timer.
C3_OneLiveTimer == \A id \in Ids : Cardinality(LiveTimers(id)) <= 1

\* A timer armed by scheduleCleanup some time after the last refresh: it
\* replaced the timer the refresh had armed.
C3_Witness ==
  \E x \in timers : x.due > sess[x.id].lastActive + SESSION_TIMEOUT

\* C4: a session that has a live expiration timer has status active.
C4_LiveTimerImpliesActive ==
  \A x \in timers : sess[x.id].status = "active"

\* C5: a session's status changes only from active to pending_deletion, and a
\* record that is pending_deletion stays so until it is removed.
C5_StatusOneWay ==
  [][\A c \in Conns, id \in Ids :
       /\ (id \in present[c] /\ sess[id].status = "pending_deletion")
            => (id \notin present'[c] \/ sess'[id].status = "pending_deletion")
       /\ (id \in present[c] /\ sess[id].status = "active")
            => sess'[id].status \in {"active", "pending_deletion"}]_vars

\* A record that is pending_deletion when its turn's stream has completed and
\* the end handler has run.
C5_Witness ==
  \E k \in 1 .. MaxTurns :
    /\ turns[k].pc = "done"
    /\ Len(turns[k].out) > 0
    /\ turns[k].out[Len(turns[k].out)] \in {"suggestions", "suggestions_empty"}
    /\ turns[k].id \in present[turns[k].c]
    /\ sess[turns[k].id].status = "pending_deletion"

\* C6: refreshSession on an id without a record, or on a record that is
\* pending_deletion, returns null and changes no session and no timer.
C6_RefreshDeadNoChange ==
  [][\A id \in Ids :
       (ApiRefresh(id) /\ ~HasSession(Reg, Api, id))
         => /\ ~calls'[Len(calls')].ok
            /\ UNCHANGED <<sess, present, timers>>]_vars

C6_Witness ==
  /\ Len(calls) > 0
  /\ calls[Len(calls)].op = "refresh"
  /\ calls[Len(calls)].pre = "pending_deletion"
  /\ ~calls[Len(calls)].ok
  /\ \E x \in timers : x.id # calls[Len(calls)].id

\* C7: a threadId that has been set keeps its value for as long as the
\* session's record exists.
C7_ThreadIdImmutable ==
  [][\A c \in Conns, id \in Ids :
       (id \in present[c] /\ sess[id].threadId # 0 /\ id \in present'[c])
         => sess'[id].threadId = sess[id].threadId]_vars

\* C8: a resume_session that carries the id of a session which is active in
\* the registry of some connection is answered with session_resumed for that
\* id, refreshes its lastActive and creates no session.
C8_ResumeAcrossConnections ==
  [][\A c \in Conns, id \in Ids :
       (ResumeSession(c, id) /\ \E d \in Conns : HasSession(Reg, d, id))
         => /\ reply'[c].ev = "session_resumed"
            /\ reply'[c].sid = id
            /\ sess'[id].lastActive = now
            /\ nextId' = nextId]_vars

\* C9: an id whose record was removed never has a record again, and a
\* resume_session with an id that is not an active session of the registry is
\* never answered with session_resumed.
C9_NoResurrection ==
  [][/\ \A c \in Conns, id \in Ids :
          (id <= nextId /\ id \notin present[c]) => id \notin present'[c]
     /\ \A c \in Conns, id \in ResumeInputs :
          (ResumeSession(c, id) /\ (id = 0 \/ ~HasSession(Reg, c, id)))
            => (reply'[c].ev # "session_resumed" /\ sessionId'[c] # id)]_vars

\* A resume_session that carried the id of a removed session and was answered
\* with a new session.
C9_Witness ==
  \E c \in Conns :
    /\ reply[c].req \in Ids
    /\ reply[c].req <= nextId
    /\ reply[c].req \notin present[c]
    /\ reply[c].ev = "session_created"
    /\ reply[c].sid # reply[c].req

\* C10: every rejected resume_session is answered with session_created that
\* carries a new session id and the info flag.
C10_RejectedResumeHasInfo ==
  \A c \in Conns :
    (reply[c].req >= 1 /\ reply[c].ev = "session_created")
      => (reply[c].info /\ reply[c].sid # reply[c].req)

\* C11: a session that has been idle for longer than the idle timeout gets a
\* clear_chat broadcast.  Read on finite runs: once idleness has removed a
\* session's record and no cleanup of it is awaiting the remote deletion
\* (nothing can broadcast for it any more), clear_chat has been broadcast for
\* it.
C11_IdleSessionCleared ==
  \A id \in Ids :
    (/\ id <= nextId
     /\ \A c \in Conns : id \notin present[c]
     /\ ~\E k \in cleanups : k.id = id)
      => clearChats[id] >= 1

\* The place of an event in a reply: text created, the deltas, response
\* complete, suggestions.
Rank(ev) ==
  CASE ev = "textCreated" -> 1
    [] ev = "textDelta" -> 2
    [] ev = "responseComplete" -> 3
    [] OTHER -> 4

ReplyEvents(k) == SelectSeq(turns[k].out, LAMBDA e : e # "error")

C13_FailureOmitsSuggestions ==
  \A k \in 1 .. MaxTurns :
    \A i \in 1 .. Len(turns[k].out) : turns[k].out[i] # "suggestions_empty"

\* C14: when suggestion generation fails, the end handler sends no error event,
\* response complete has been sent before, and the expiration timer of the
\* turn's session (if it is still an active session of the registry) is armed
\* anew for a full idle timeout from that moment.
C14_SuggestFailureSwallowed ==
  [][\A k \in 1 .. MaxTurns :
       SuggestDone(k, FALSE)
         => /\ turns'[k].out = Append(turns[k].out, "suggestions_empty")
            /\ \E i \in 1 .. Len(turns[k].out) : turns[k].out[i] = "responseComplete"
            /\ turns'[k].pc = "done"
            /\ HasSession(Reg, turns[k].c, turns[k].id)
                 => /\ sess'[turns[k].id].status = "active"
                    /\ \E x \in timers' :
                         /\ x.id = turns[k].id
                         /\ x.h = sess'[turns[k].id].timeoutId
                         /\ x.due = now + SESSION_TIMEOUT]_vars

\* The generator has failed a quarter of an hour or more after the prompt, and
\* the session's timer runs from the failure, not from the prompt.
C14_Witness ==
  \E k \in 1 .. MaxTurns :
    /\ turns[k].pc = "done"
    /\ Len(turns[k].out) > 0
    /\ turns[k].out[Len(turns[k].out)] = "suggestions_empty"
    /\ \E x \in timers :
         /\ x.id = turns[k].id
         /\ x.due > sess[x.id].lastActive + SESSION_TIMEOUT

\* C15: once a turn's reply stream has delivered an error and the error event
\* has been sent, neither response complete nor suggestions is sent for that
\* turn and the suggestion generator is not called for it.
C15_NothingAfterStreamError ==
  \A k \in 1 .. MaxTurns :
    /\ \A i, j \in 1 .. Len(turns[k].out) :
         (i < j /\ turns[k].out[i] = "error")
           => turns[k].out[j] \notin {"responseComplete", "suggestions",
                                      "suggestions_empty"}
    /\ (\E i \in 1 .. Len(turns[k].out) : turns[k].out[i] = "error")
         => turns[k].pc # "suggest"

\* C16: a send_prompt on a connection that has no session, or whose session
\* has been removed or is pending_deletion, is answered with an error event
\* and changes nothing: no session object, no registry, no timer, no thread and
\* no cleanup changes, and the turn goes no further (nothing is appended, no
\* stream is requested).
C16_InvalidPromptNoChange ==
  [][\A c \in Conns, k \in 1 .. MaxTurns :
       (SendPrompt(c, k) /\ (sessionId[c] = 0 \/ ~HasSession(Reg, c, sessionId[c])))
         => /\ turns'[k].out = <<"error">>
            /\ turns'[k].pc = "rejected"
            /\ UNCHANGED <<sess, present, timers, threads, nextThread, cleanups,
                           delCalls>>]_vars

\* A prompt was turned down on a session that is pending_deletion and still
\* has its timer, a quarter of an hour or more after its last activity.
C16_Witness ==
  \E k \in 1 .. MaxTurns :
    /\ turns[k].pc = "rejected"
    /\ turns[k].id \in present[turns[k].c]
    /\ sess[turns[k].id].status = "pending_deletion"
    /\ sess[turns[k].id].lastActive < now
    /\ \E x \in timers : x.id = turns[k].id

\* A turn's step in which the backend fails it: threads.create rejects,
\* messages.create rejects ("fail"), or runs.stream throws ("throw").
BackendFails(k) ==
  CreateDone(k, FALSE) \/ AppendDone(k, "fail") \/ AppendDone(k, "throw")

FailedTurn(k) ==
  /\ turns[k].pc = "done"
  /\ turns[k].out # << >>
  /\ turns[k].out[Len(turns[k].out)] = "error"

\* C17: a turn that fails at thread creation, message append or stream start
\* sends an error event and touches no session, timer or cleanup: a session
\* that was active with its record present is so afterwards, nothing is marked
\* or removed; and a send_prompt that follows a failed turn on a session that
\* is active is accepted.
C17_FailedTurnKeepsSession ==
  [][/\ \A k \in 1 .. MaxTurns :
          BackendFails(k)
            => /\ turns'[k].out = Append(turns[k].out, "error")
               /\ turns'[k].pc = "done"
               /\ UNCHANGED <<sess, present, timers, cleanups>>
     /\ \A c \in Conns, k \in 2 .. MaxTurns :
          (SendPrompt(c, k) /\ FailedTurn(k - 1) /\ turns[k - 1].id = sessionId[c]
           /\ HasSession(Reg, c, sessionId[c]))
            => /\ turns'[k].pc = "retrieve"
               /\ turns'[k].out = << >>
               /\ sess'[sessionId[c]].status = "active"]_vars

\* The first turn failed after the assistant had been retrieved (at thread
\* creation, append or stream start) and the second turn of the same session
\* is being streamed.
C17_Witness ==
  /\ FailedTurn(1)
  /\ turns[1].out = <<"error">>
  /\ assistant[turns[1].c]
  /\ turns[2].id = turns[1].id
  /\ turns[2].pc = "deltas"
  /\ sess[turns[2].id].status = "active"
  /\ turns[2].id \in present[turns[2].c]

\* C18: a session is created, one prompt is sent on it and response complete
\* is observed: at that moment the session is active, its record present, and
\* its lastActive is strictly greater than the time at which it was created.
C18_RoundTripAdvancesLastActive ==
  [][\A k \in 1 .. MaxTurns :
       (/\ StreamEnd(k)
        /\ k = 1
        /\ reply[turns[k].c].ev = "session_created"
        /\ reply[turns[k].c].sid = turns[k].id)
         => /\ turns[k].id \in present'[turns[k].c]
            /\ sess'[turns[k].id].status = "active"
            /\ sess'[turns[k].id].lastActive > reply[turns[k].c].at]_vars

\* C19: the disconnect handler marks no session, removes no record and deletes
\* no thread: every session keeps its status, threadId and lastActive, and the
\* only change is that the connection's session, if it is active, has exactly
\* one timer, armed for a full idle timeout from the disconnect.
C19_DisconnectOnlySchedules ==
  [][\A c \in Conns :
       Disconnect(c)
         => /\ UNCHANGED <<present, threads, cleanups, delCalls, clearChats>>
            /\ \A s \in Ids :
                 /\ sess'[s].status = sess[s].status
                 /\ sess'[s].threadId = sess[s].threadId
                 /\ sess'[s].lastActive = sess[s].lastActive
            /\ \A x \in timers : x.id # sessionId[c] => x \in timers'
            /\ \A x \in timers' : x.id # sessionId[c] => x \in timers
            /\ (sessionId[c] # 0 /\ HasSession(Reg, c, sessionId[c]))
                 => {x \in timers' : x.id = sessionId[c]}
                      = {[h |-> sess'[sessionId[c]].timeoutId, c |-> c,
                          id |-> sessionId[c], due |-> now + SESSION_TIMEOUT]}]_vars

\* The client has gone while its prompt was being answered; the session has
\* its thread, is active, and its timer runs from the disconnect.
C19_Witness ==
  \E c \in Conns, k \in 1 .. MaxTurns :
    /\ connState[c] = "closed"
    /\ turns[k].c = c
    /\ turns[k].id = sessionId[c]
    /\ turns[k].pc \in {"stream", "deltas"}
    /\ sessionId[c] \in present[c]
    /\ sess[sessionId[c]].status = "active"
    /\ sess[sessionId[c]].threadId # 0
    /\ \E x \in timers : /\ x.id = sessionId[c]
                         /\ x.due > sess[x.id].lastActive + SESSION_TIMEOUT

\* The remote deletion of a session has failed and nothing is deleting it now:
\* its record is still there, and threads.del has been called for it.
DeletionFailed(c, id) ==
  /\ id \in present[c]
  /\ sess[id].status = "pending_deletion"
  /\ delCalls[id] >= 1
  /\ ~\E k \in cleanups : k.id = id

C21_NotFoundRemovesRecord ==
  [][\A k \in cleanups :
       DelDone(k, "notfound")
         => /\ k.id \notin present'[k.c]
            /\ \A x \in timers' : x.id # k.id
            /\ k \notin cleanups']_vars

\* A record that only a 404 can have removed: threads.del was called for the
\* session more than once, its thread is gone, and clear_chat was never
\* broadcast for it.
C21_Witness ==
  \E id \in Ids :
    /\ id <= nextId
    /\ \A c \in Conns : id \notin present[c]
    /\ delCalls[id] >= 2
    /\ clearChats[id] = 0
    /\ sess[id].threadId \notin threads
    /\ ~\E k \in cleanups : k.id = id

C23_NoStreamForDeadSession ==
  [][\A k \in 1 .. MaxTurns :
       AppendDone(k, "ok") => HasSession(Reg, turns[k].c, turns[k].id)]_vars

\* C24: a turn requests its reply stream only after its prompt has been
\* appended, and on the thread the prompt was appended to (the session's
\* thread); when the append fails the turn sends an error event and requests
\* no stream.
C24_AppendBeforeStream ==
  [][\A k \in 1 .. MaxTurns :
       /\ turns'[k].pc = "stream" /\ turns[k].pc # "stream"
            => /\ AppendDone(k, "ok")
               /\ turns'[k].stream = turns[k].tid
       /\ AppendDone(k, "fail")
            => /\ turns'[k].out = Append(turns[k].out, "error")
               /\ turns'[k].pc = "done"
               /\ turns'[k].stream = 0]_vars

\* C25: when a turn completes (the end handler has emitted its suggestions,
\* whether generation succeeded or not) and the turn's session is an active
\* session of the registry, its lastActive is set to the completion time and
\* it has exactly one timer, armed for a full idle timeout from that time.
C25_CompletionRefreshes ==
  [][\A k \in 1 .. MaxTurns, ok \in BOOLEAN :
       (SuggestDone(k, ok) /\ HasSession(Reg, turns[k].c, turns[k].id))
         => /\ sess'[turns[k].id].lastActive = now
            /\ {x \in timers' : x.id = turns[k].id}
                 = {[h |-> sess'[turns[k].id].timeoutId, c |-> turns[k].c,
                     id |-> turns[k].id, due |-> now + SESSION_TIMEOUT]}]_vars

\* C26: every live timer is due exactly one idle timeout after its session's
\* lastActive.
C26_TimerDueAfterLastActive ==
  \A x \in timers : x.due = sess[x.id].lastActive + SESSION_TIMEOUT

Gone(k) == turns[k].pc # "none" /\ connState[turns[k].c] = "closed"

\* C27: a disconnect leaves the connection's turns as they are; a turn whose
\* client has gone can still take every event of its stream up to the end, the
\* handlers emit as before, and when the turn completes the end handler arms
\* the session's timer anew if the session is an active one.
C27_DisconnectKeepsStream ==
  [][/\ \A c \in Conns : Disconnect(c) => turns' = turns
     /\ \A k \in 1 .. MaxTurns :
          /\ (Gone(k) /\ turns[k].pc = "stream") => ENABLED StreamTextCreated(k)
          /\ (Gone(k) /\ turns[k].pc = "deltas" /\ turns[k].n < MaxDeltas)
               => ENABLED StreamTextDelta(k)
          /\ (Gone(k) /\ turns[k].pc \in {"stream", "deltas"}) => ENABLED StreamEnd(k)
          /\ (Gone(k) /\ StreamTextDelta(k))
               => turns'[k].out = Append(turns[k].out, "textDelta")
          /\ (Gone(k) /\ StreamEnd(k))
               => turns'[k].out = Append(turns[k].out, "responseComplete")
          /\ (Gone(k) /\ turns[k].pc = "suggest") => ENABLED SuggestDone(k, TRUE)
          /\ \A ok \in BOOLEAN :
               (Gone(k) /\ SuggestDone(k, ok) /\ HasSession(Reg, turns[k].c, turns[k].id))
                 => \E x \in timers' : /\ x.id = turns[k].id
                                       /\ x.h = sess'[turns[k].id].timeoutId
                                       /\ x.due = now + SESSION_TIMEOUT]_vars

\* The client has gone and its turn has delivered the whole reply, suggestions
\* included, half an hour after the prompt; the session is active and its
\* timer runs from now.
C27_Witness ==
  \E k \in 1 .. MaxTurns :
    /\ Gone(k)
    /\ turns[k].out = <<"textCreated", "textDelta", "responseComplete", "suggestions">>
    /\ HasSession(Reg, turns[k].c, turns[k].id)
    /\ \E x \in timers : x.id = turns[k].id /\ x.due = now + SESSION_TIMEOUT
    /\ now = MaxTime
    /\ sess[turns[k].id].lastActive = MaxTime - SESSION_TIMEOUT

\* C28: a cleanup whose threads.del returns successfully broadcasts clear_chat
\* for the session and removes its record in that step, not before; the record
\* of a session that has a thread is removed only when a threads.del for the
\* session has returned (with success or 404); and clear_chat is broadcast for
\* a session only in a step in which a threads.del for it returns successfully.
C28_ClearChatOnlyOnSuccess ==
  [][/\ \A k \in cleanups :
          DelDone(k, "ok")
            => /\ clearChats'[k.id] = clearChats[k.id] + 1
               /\ k.id \notin present'[k.c]
               /\ k.tid \in threads /\ k.tid \notin threads'
     /\ \A c \in Conns, id \in Ids :
          (id \in present[c] /\ id \notin present'[c] /\ sess[id].threadId # 0)
            => \E k \in cleanups :
                 k.id = id /\ (DelDone(k, "ok") \/ DelDone(k, "notfound"))
     /\ \A id \in Ids :
          clearChats'[id] # clearChats[id]
            => \E k \in cleanups : k.id = id /\ DelDone(k, "ok")]_vars

\* One threads.del was made for a session, it succeeded, clear_chat went out
\* once and the record is gone.
C28_Witness ==
  \E id \in Ids :
    /\ id <= nextId
    /\ \A c \in Conns : id \notin present[c]
    /\ delCalls[id] = 1
    /\ clearChats[id] = 1
    /\ sess[id].threadId # 0
    /\ sess[id].threadId \notin threads

\* C29: a cleanup invoked for an id that has no record in the registry, by a
\* timer or by the sweep, changes nothing: no record is created or modified,
\* threads.del is not called and no cleanup is left awaiting.
C29_CleanupOfAbsentIsNoOp ==
  \A c \in Conns, id \in Ids, origin \in {"timer", "sweep"} :
    ~GetSession(Reg, c, id) => CleanupSession(Reg, c, id, origin) = Reg

\* A sweep awaits the remote deletion of one session while the next id on its
\* list has lost its record: the loop is about to call cleanupSession for it.
C29_Witness ==
  \E c \in Conns :
    /\ SweepBusy(Reg, c)
    /\ sweepQ[c] # << >>
    /\ Head(sweepQ[c]) \notin present[c]
    /\ \E id \in Ids : id \notin present[c] /\ sess[id].threadId # 0

Listed(c, t) ==
  {GetExpiredSessions(Reg, c, t)[i] : i \in 1 .. Len(GetExpiredSessions(Reg, c, t))}

\* C30: at every time t at or after now, getExpiredSessions returns, each once,
\* the ids of the registry's records that are pending_deletion or that are
\* active and idle for strictly more than the idle timeout, and no others: no
\* active session idle for the timeout or less.
C30_ListExpiredExact ==
  \A c \in Conns, t \in now .. (MaxTime + SESSION_TIMEOUT + 1) :
    /\ Len(GetExpiredSessions(Reg, c, t)) = Cardinality(Listed(c, t))
    /\ Listed(c, t) \subseteq present[c]
    /\ \A id \in present[c] :
         /\ sess[id].status = "pending_deletion" => id \in Listed(c, t)
         /\ (sess[id].status = "active" /\ t - sess[id].lastActive > SESSION_TIMEOUT)
              => id \in Listed(c, t)
         /\ (sess[id].status = "active" /\ t - sess[id].lastActive <= SESSION_TIMEOUT)
              => id \notin Listed(c, t)

\* Of two active sessions, one idle for exactly the timeout and one idle for
\* longer, the second alone is listed; a quarter of an hour later both are.
C30_Witness ==
  \E a, b \in present[Api] :
    /\ sess[a].status = "active"
    /\ sess[b].status = "active"
    /\ now - sess[a].lastActive = SESSION_TIMEOUT
    /\ now - sess[b].lastActive = SESSION_TIMEOUT + 1
    /\ GetExpiredSessions(Reg, Api, now) = <<b>>
    /\ Listed(Api, now + 1) = {a, b}

\* C31: deleteSession cancels the session's timer and removes its record
\* whatever the record's status, and leaves every other session and timer
\* alone; called on an id that has no record (never created, or deleted
\* before) it changes no session, no record and no timer; it can be called in
\* every state.
C31_DeleteIdempotent ==
  [][\A id \in Ids :
       ApiDelete(id)
         => /\ id \notin present'[Api]
            /\ {x \in timers' : x.id = id} = {}
            /\ \A j \in Ids \ {id} :
                 /\ (j \in present'[Api]) = (j \in present[Api])
                 /\ {x \in timers' : x.id = j} = {x \in timers : x.id = j}
            /\ sess' = sess
            /\ id \notin present[Api] => UNCHANGED <<sess, present, timers>>
            /\ \A j \in Ids : ENABLED ApiDelete(j)]_vars

\* deleteSession was called twice in a row on a session that was
\* pending_deletion, while another session keeps its record and its timer.
C31_Witness ==
  /\ Len(calls) = 2
  /\ calls[1].op = "delete" /\ calls[2].op = "delete"
  /\ calls[1].id = calls[2].id
  /\ calls[1].pre = "pending_deletion"
  /\ calls[2].pre = "absent"
  /\ calls[1].id \notin present[Api]
  /\ \E j \in present[Api] : \E x \in timers : x.id = j /\ x.h = sess[j].timeoutId

\* C32: a cleanup of a session that has a record and no threadId, invoked by
\* a timer or by the sweep, calls threads.del for no session, leaves no cleanup
\* awaiting and has removed the record when it returns; so the step in which
\* the timer of such a session fires removes its record.
C32_NoThreadRemovedAtOnce ==
  [][/\ \A c \in Conns, id \in Ids, origin \in {"timer", "sweep"} :
          (GetSession(Reg, c, id) /\ sess[id].threadId = 0)
            => /\ id \notin CleanupSession(Reg, c, id, origin).present[c]
               /\ CleanupSession(Reg, c, id, origin).delCalls = delCalls
               /\ CleanupSession(Reg, c, id, origin).cleanups = cleanups
     /\ \A x \in timers :
          (TimerFire(x) /\ x.id \in present[x.c] /\ sess[x.id].threadId = 0)
            => /\ x.id \notin present'[x.c]
               /\ delCalls' = delCalls
               /\ cleanups' = cleanups
               /\ threads' = threads]_vars

\* A session that never had a thread has been cleaned up: its record is gone
\* and threads.del was never called for it.
C32_Witness ==
  \E id \in Ids :
    /\ id <= nextId
    /\ \A c \in Conns : id \notin present[c]
    /\ sess[id].status = "pending_deletion"
    /\ sess[id].threadId = 0
    /\ delCalls[id] = 0

\* The threads that the turns of session id have created or found bound to it.
ThreadsOf(id) == {turns[k].tid : k \in {j \in 1 .. MaxTurns : turns[j].id = id}} \ {0}

\* C33: for each session at most one thread is ever created and bound: all
\* the turns of a session work on the same thread, also when a prompt is
\* handled while an earlier one is still awaiting threads.create.
C33_OneThreadPerSession ==
  \A id \in Ids : Cardinality(ThreadsOf(id)) <= 1

\* The fragments the stream of turn k has delivered, in the order of arrival.
Delivered(k) == [i \in 1 .. turns[k].n |-> <<k, i>>]

\* The end handler of turn k has run: generate was called.
Generated(k) == \E i \in 1 .. Len(turns[k].out) : turns[k].out[i] = "responseComplete"

InFlight(k) == turns[k].pc \in {"retrieve", "create", "append", "stream", "deltas"}

\* C35: while a turn of a session is in flight the session is not marked
\* pending_deletion (by its timer or by the sweep), its record is not removed
\* and the thread the turn works on is not deleted at the backend.
C35_InFlightNotCleaned ==
  \A k \in 1 .. MaxTurns :
    InFlight(k)
      => /\ HasSession(Reg, turns[k].c, turns[k].id)
         /\ turns[k].tid # 0 => turns[k].tid \in threads

\* C36: scheduleCleanup on a session that is pending_deletion or has no
\* record returns the registry as it found it; so neither the disconnect
\* handler nor the end handler of a stream arms a timer for, or changes, a
\* session that is marked for deletion or removed.
C36_NoTimerOnceCleanupBegan ==
  [][/\ \A c \in Conns, id \in Ids :
          ~HasSession(Reg, c, id) => ScheduleCleanup(Reg, c, id, now) = Reg
     /\ \A c \in Conns :
          (Disconnect(c) /\ ~HasSession(Reg, c, sessionId[c]))
            => UNCHANGED <<sess, present, timers>>
     /\ \A k \in 1 .. MaxTurns :
          ((\E ok \in BOOLEAN : SuggestDone(k, ok))
             /\ ~HasSession(Reg, turns[k].c, turns[k].id))
            => UNCHANGED <<sess, present, timers>>]_vars

\* A turn has run its end handler to the end and the client has disconnected,
\* the session's thread is deleted and its record removed, and no timer is
\* left for the session.
C36_Witness ==
  \E k \in 1 .. MaxTurns :
    /\ turns[k].pc = "done"
    /\ Generated(k)
    /\ connState[turns[k].c] = "closed"
    /\ turns[k].id \notin present[turns[k].c]
    /\ clearChats[turns[k].id] = 1
    /\ LiveTimers(turns[k].id) = {}
    /\ now = SESSION_TIMEOUT

\* One connection on a clock that never stops, whose client establishes
\* sessions with init_session and with resume_session requests that are
\* turned down, sends no prompt and may disconnect: no session is refreshed
\* after its creation.  Time passes, and timers and the sweep interval fire
\* when they are due.
NextIdle ==
  \/ \E c \in MainConns : Connect(c)
  \/ \E c \in MainConns : InitSession(c)
  \/ \E c \in MainConns, id \in ResumeInputs :
       ResumeSession(c, id) /\ (id = 0 \/ ~HasSession(Reg, c, id))
  \/ \E c \in MainConns : Disconnect(c)
  \/ \E x \in timers : TimerFire(x)
  \/ \E c \in MainConns : SweepStart(c)
  \/ Tick
  \/ TickBeyond

SpecIdle ==
  /\ Init
  /\ [][NextIdle]_vars
  /\ WF_vars(Tick \/ TickBeyond)
  /\ WF_vars(\E x \in timers : TimerFire(x))
  /\ \A c \in MainConns : WF_vars(SweepStart(c))

\* C37: every active session is eventually removed once it is refreshed no
\* more, a session for which no timer was ever armed included: the sweep
\* lists it when it has been idle for more than the timeout.
C37_IdleActiveEventuallyRemoved ==
  \A c \in Conns, id \in Ids :
    (id \in present[c] /\ sess[id].status = "active") ~> (id \notin present[c])

\* Two sessions for which no timer was ever armed have been removed: the one
\* that init_session created and the one that replaced it as the connection's
\* session when a resume_session was turned down.
C37_Witness ==
  /\ nextId = 2
  /\ reply["c1"].ev = "session_created" /\ reply["c1"].sid = 2
  /\ reply["c1"].req # -1
  /\ \A id \in Ids : /\ id \notin present["c1"]
                     /\ sess[id].timeoutId = 0
                     /\ sess[id].status = "pending_deletion"

\* C38: every thread that exists at the backend is the threadId of a session
\* that has a record in a registry: no thread is left without its session,
\* also when the session is cleaned up while a turn awaits threads.create.
C38_NoOrphanThread ==
  \A t \in threads :
    \E c \in Conns : \E id \in present[c] : sess[id].threadId = t

\* What a step shows of a cleanupSession call the sweep of c made for id: a
\* call for an id without a record does nothing, and a call for a record either
\* removes it or leaves the sweep awaiting threads.del for it.
SweepInvoked(c, id) ==
  \/ id \notin present[c]
  \/ id \notin present'[c]
  \/ /\ \E k \in cleanups' : k.c = c /\ k.id = id /\ k.origin = "sweep"
     /\ delCalls'[id] = delCalls[id] + 1

\* The sweep of c goes on with the ids q in this step: it takes them from the
\* head of q one after another, calls cleanupSession for each, and stops only
\* to await a remote deletion or at the end of q.
SweepGoesOn(c, q) ==
  /\ Len(sweepQ'[c]) <= Len(q)
  /\ sweepQ'[c] = SubSeq(q, Len(q) - Len(sweepQ'[c]) + 1, Len(q))
  /\ sweepQ'[c] # << >> => \E k \in cleanups' : k.c = c /\ k.origin = "sweep"
  /\ \A i \in 1 .. (Len(q) - Len(sweepQ'[c])) : SweepInvoked(c, q[i])

\* C39: a sweep calls cleanupSession once for every id that getExpiredSessions
\* returned when it started, in the order of the list and one after another;
\* when the remote deletion it awaited for one id has failed, or succeeded,
\* it goes on with the ids that remain.
C39_SweepVisitsEveryId ==
  [][\A c \in Conns :
       /\ SweepStart(c) => SweepGoesOn(c, GetExpiredSessions(Reg, c, now))
       /\ \A k \in cleanups, res \in DelResults :
            (DelDone(k, res) /\ k.c = c /\ k.origin = "sweep")
              => SweepGoesOn(c, sweepQ[c])]_vars

\* The sweep listed two sessions; the remote deletion of the first failed, as
\* it had for the session's timer, and the sweep went on to remove the second,
\* which had no timer.
C39_Witness ==
  /\ nextId = 2
  /\ 1 \in present["c1"]
  /\ sess[1].status = "pending_deletion"
  /\ delCalls[1] = 2
  /\ cleanups = {}
  /\ sweepQ["c1"] = << >>
  /\ 2 \notin present["c1"]
  /\ sess[2].status = "pending_deletion"
  /\ sess[2].timeoutId = 0

====
